---- MODULE Spec2Model ----
(***************************************************************************)
(* A model of ox_bqpipeline/bqpipeline.py: the BQPipeline orchestrator,    *)
(* its table-spec resolver, its job-configuration builder and its query    *)
(* parameter typer.                                                        *)
(*                                                                         *)
(* Python strings are sequences of one-character strings, so that          *)
(* str.split, str.startswith and + are computed on characters.  Python's   *)
(* None, where a string is expected, is the one-element sequence None,     *)
(* whose element is no character.                                          *)
(***************************************************************************)
EXTENDS Integers, Sequences, FiniteSets, TLC

VARIABLES
    default_project,   \* self.default_project: a string or None
    default_dataset,   \* self.default_dataset: a string or None
    bq,                \* self.bq: 0 is None, k > 0 the k-th client created
    query_project,     \* self.query_project: a string or None
    clients_created,   \* number of bigquery.Client objects constructed
    args,              \* the arguments the operations are invoked with
    op,                \* the last operation invoked
    ret,               \* what it returned, or the exception it raised
    events             \* what it did, in order: jobs submitted and awaited,
                       \* exceptions logged

vars == <<default_project, default_dataset, bq, query_project,
          clients_created, args, op, ret, events>>

self == <<default_project, default_dataset, bq, query_project,
          clients_created>>

(***************************************************************************)
(* Bounds of the model.                                                    *)
(***************************************************************************)
\* Table specs have at most MaxSegs dot-separated segments.
MaxSegs == 4

(***************************************************************************)
(* Strings.                                                                *)
(***************************************************************************)
None == <<"<None>">>

Dot == <<".">>

GcsPrefix == <<"g", "s", ":", "/", "/">>

\* str.startswith(prefix)
startswith(s, prefix) ==
    /\ Len(s) >= Len(prefix)
    /\ SubSeq(s, 1, Len(prefix)) = prefix

\* str.split(sep) for a one-character separator: always at least one part.
RECURSIVE split(_, _)
split(s, sep) ==
    IF \E i \in 1..Len(s) : s[i] = sep
    THEN LET i == CHOOSE k \in 1..Len(s) :
                      s[k] = sep /\ \A j \in 1..(k - 1) : s[j] # sep
         IN  <<SubSeq(s, 1, i - 1)>> \o split(SubSeq(s, i + 1, Len(s)), sep)
    ELSE <<s>>

\* sep.join(parts), used to build the input strings of the model.
RECURSIVE join(_, _)
join(parts, sep) ==
    IF Len(parts) = 0 THEN <<>>
    ELSE IF Len(parts) = 1 THEN parts[1]
    ELSE parts[1] \o sep \o join(Tail(parts), sep)

\* The projects and datasets an orchestrator is constructed with.
ProjectP == <<"p">>
DatasetD == <<"d">>
\* The project the client infers from the credentials (bigquery.Client.project).
ClientProject == <<"q">>

\* Segment texts of the table specs tried, the empty segment included.
SegTexts == {<<>>, ProjectP, DatasetD, <<"t">>}

RECURSIVE SegSeqs(_)
SegSeqs(n) ==
    IF n = 0 THEN {<<>>}
    ELSE {Append(ss, x) : ss \in SegSeqs(n - 1), x \in SegTexts}

\* Every string of 1..MaxSegs segments drawn from SegTexts.
TableSpecs == UNION {{join(ss, Dot) : ss \in SegSeqs(n)} : n \in 1..MaxSegs}

\* Object-storage destinations, and a string that only resembles one.
GcsDests == {GcsPrefix \o <<"b">>, GcsPrefix \o <<"b", ".", "c">>, GcsPrefix}
NearGcs == <<"g", "s", ":", "/", "t">>

Dests == TableSpecs \cup GcsDests \cup {NearGcs, None}

(***************************************************************************)
(* Python values given as query parameters.  A value is a record: ty is    *)
(* its exact type (type(value).__name__), n its payload (the number of an  *)
(* int, bool, float or Decimal; an identifier otherwise), nan marks the    *)
(* float NaN, items are the elements of a list or the values of a dict in  *)
(* insertion order, keys the keys of a dict.  Strings here are non-empty.  *)
(* Floats are measured in units of 1e28.                                   *)
(***************************************************************************)
\* Lists have at most MaxListLen elements, dicts at most MaxDictLen entries.
MaxListLen == 2
MaxDictLen == 2

\* NUMERIC_BOUNDS: the two literals both round to the double 1e29.
NUMERIC_BOUNDS_min == -10
NUMERIC_BOUNDS_max == 10

Scalar(ty, n) == [ty |-> ty, n |-> n, nan |-> FALSE, items |-> <<>>, keys |-> <<>>]
PyNaN == [ty |-> "float", n |-> 0, nan |-> TRUE, items |-> <<>>, keys |-> <<>>]
PyList(items) == [ty |-> "list", n |-> 0, nan |-> FALSE, items |-> items, keys |-> <<>>]
PyDict(keys, items) == [ty |-> "dict", n |-> 0, nan |-> FALSE, items |-> items, keys |-> keys]
PyNone == Scalar("NoneType", 0)

\* Keys: of a dict entry, or the name of a parameter (None for a positional one).
Key(ty, n) == [ty |-> ty, n |-> n]
KeyNone == Key("NoneType", 0)
StrKeys == {Key("str", 1), Key("str", 2)}
DictKeys == StrKeys \cup {Key("int", 1)}
ParamKeys == {KeyNone, Key("str", 0)}

\* Floats at, next to and far from the NUMERIC bounds, the infinities (the
\* outermost two) and NaN.
FloatNums == {NUMERIC_BOUNDS_min - 90, NUMERIC_BOUNDS_min - 1, NUMERIC_BOUNDS_min,
              0, NUMERIC_BOUNDS_max, NUMERIC_BOUNDS_max + 1, NUMERIC_BOUNDS_max + 90}
Floats == {Scalar("float", n) : n \in FloatNums} \cup {PyNaN}

Scalars ==
    Floats
    \cup {Scalar("str", n) : n \in {1, 2}}
    \cup {Scalar("int", n) : n \in {0, 1, NUMERIC_BOUNDS_max + 1}}
    \cup {Scalar("bool", n) : n \in {0, 1}}
    \cup {Scalar(ty, 1) : ty \in {"bytes", "datetime", "date", "Decimal"}}
    \cup {PyNone}

RECURSIVE SeqsOf(_, _)
SeqsOf(S, n) ==
    IF n = 0 THEN {<<>>}
    ELSE {Append(ss, x) : ss \in SeqsOf(S, n - 1), x \in S}

SeqsUpTo(S, n) == UNION {SeqsOf(S, k) : k \in 0..n}

\* Sequences of pairwise different keys.
KeySeqs(n) ==
    {ks \in SeqsUpTo(DictKeys, n) :
        \A i, j \in 1..Len(ks) : i # j => ks[i] # ks[j]}

DictsOver(S, n) ==
    UNION {{PyDict(ks, vs) : vs \in SeqsOf(S, Len(ks))} : ks \in KeySeqs(n)}

ListsOver(S, n) == {PyList(vs) : vs \in SeqsUpTo(S, n)}

\* The elements of nested containers: a few scalars and small containers.
Seeds ==
    {Scalar("str", 1), Scalar("int", 1), Scalar("float", 0), PyNone,
     PyList(<<>>), PyList(<<Scalar("int", 1)>>),
     PyList(<<Scalar("int", 1), Scalar("str", 2)>>),
     PyDict(<<>>, <<>>),
     PyDict(<<Key("str", 1)>>, <<Scalar("int", 1)>>),
     PyDict(<<Key("int", 1)>>, <<Scalar("int", 1)>>),
     PyDict(<<Key("str", 1)>>, <<PyList(<<>>)>>)}

Values ==
    Scalars
    \cup ListsOver(Scalars, MaxListLen)
    \cup ListsOver(Seeds, MaxListLen)
    \cup DictsOver(Seeds, MaxDictLen)

(***************************************************************************)
(* BQ_SCALAR_TYPE_MAP and the bigquery query-parameter classes.            *)
(***************************************************************************)
BQ_SCALAR_TYPES == {"str", "int", "float", "bool", "bytes", "datetime", "date"}

\* Mutant: the table looked up with isinstance, so that a bool is an int and
\* a datetime a date.
BQ_SCALAR_TYPE_MAP_get_isinstance(ty) ==
    CASE ty = "str" -> "STRING"
      [] ty \in {"int", "bool"} -> "INT64"
      [] ty = "float" -> "FLOAT64"
      [] ty = "bytes" -> "BYTES"
      [] ty \in {"datetime", "date"} -> "DATE"
      [] OTHER -> "None"

\* BQ_SCALAR_TYPE_MAP.get(type(value)): "None" for a type that is no key.
BQ_SCALAR_TYPE_MAP_get(ty) ==
    CASE ty = "str" -> "STRING"
      [] ty = "int" -> "INT64"
      [] ty = "float" -> "FLOAT64"
      [] ty = "bool" -> "BOOL"
      [] ty = "bytes" -> "BYTES"
      [] ty = "datetime" -> "TIMESTAMP"
      [] ty = "date" -> "DATE"
      [] OTHER -> "None"

\* A parameter object; cls "None" is Python's None.
Param(cls, name, type_, value, sub) ==
    [cls |-> cls, name |-> name, type_ |-> type_, value |-> value, sub |-> sub]
ParamNone == Param("None", KeyNone, "None", PyNone, <<>>)

\* What a call gives: raised is "none" and param the value returned, or raised
\* names the exception.
Returns(p) == [raised |-> "none", param |-> p]
Raises(e) == [raised |-> e, param |-> ParamNone]

\* v < bound and v > bound for a number v; every comparison with NaN is false.
lt(v, bound) == ~v.nan /\ v.n < bound
gt(v, bound) == ~v.nan /\ v.n > bound
out_of_bounds(v) == lt(v, NUMERIC_BOUNDS_min) \/ gt(v, NUMERIC_BOUNDS_max)

\* The types whose values compare with a float; any other raises TypeError.
Comparable(v) == v.ty \in {"float", "int", "bool", "Decimal"}

\* The first exception among the results rs, or "none".
FirstRaised(rs) ==
    IF \E i \in 1..Len(rs) : rs[i].raised # "none"
    THEN rs[CHOOSE i \in 1..Len(rs) :
                /\ rs[i].raised # "none"
                /\ \A j \in 1..(i - 1) : rs[j].raised = "none"].raised
    ELSE "none"

(***************************************************************************)
(* set_parameter                                                           *)
(***************************************************************************)
\* Mutant: the struct is built without its key.
StructQueryParameter_nokey(key, value, subs) ==
    IF \E i \in 1..Len(subs) : subs[i].cls = "None"
    THEN Raises("AttributeError")
    ELSE Returns(Param("StructQueryParameter", KeyNone, "STRUCT", value, subs))

\* bigquery.StructQueryParameter(key, *subs) reads sub.name of every sub.
StructQueryParameter(key, value, subs) ==
    IF \E i \in 1..Len(subs) : subs[i].cls = "None"
    THEN Raises("AttributeError")
    ELSE Returns(Param("StructQueryParameter", key, "STRUCT", value, subs))

\* Mutant: the element type is taken from the last element of the list.
set_array_parameter_last(key, value) ==
    LET last == value.items[Len(value.items)]
    IN  IF last.ty # "float"
        THEN Returns(Param("ArrayQueryParameter", key,
                           BQ_SCALAR_TYPE_MAP_get(last.ty), value, <<>>))
        ELSE IF \E i \in 1..Len(value.items) : ~Comparable(value.items[i])
        THEN Raises("TypeError")
        ELSE IF \E i \in 1..Len(value.items) : out_of_bounds(value.items[i])
        THEN Returns(Param("ArrayQueryParameter", key,
                           BQ_SCALAR_TYPE_MAP_get(last.ty), value, <<>>))
        ELSE Returns(Param("ArrayQueryParameter", key, "NUMERIC", value, <<>>))

\* The list branch: value is a non-empty list.
set_array_parameter(key, value) ==
    IF value.items[1].ty # "float"
    THEN Returns(Param("ArrayQueryParameter", key,
                       BQ_SCALAR_TYPE_MAP_get(value.items[1].ty), value, <<>>))
    ELSE IF \E i \in 1..Len(value.items) : ~Comparable(value.items[i])
    THEN Raises("TypeError")
    ELSE IF \E i \in 1..Len(value.items) : out_of_bounds(value.items[i])
    THEN Returns(Param("ArrayQueryParameter", key,
                       BQ_SCALAR_TYPE_MAP_get(value.items[1].ty), value, <<>>))
    ELSE Returns(Param("ArrayQueryParameter", key, "NUMERIC", value, <<>>))

\* The float branch.
set_float_parameter(key, value) ==
    IF lt(value, NUMERIC_BOUNDS_min) \/ gt(value, NUMERIC_BOUNDS_max)
    THEN Returns(Param("ScalarQueryParameter", key,
                       BQ_SCALAR_TYPE_MAP_get(value.ty), value, <<>>))
    ELSE Returns(Param("ScalarQueryParameter", key, "NUMERIC", value, <<>>))

RECURSIVE set_parameter(_, _)
set_parameter(key, value) ==
    IF value.ty \in {"str", "int", "bytes", "bool", "datetime", "date"}
    THEN Returns(Param("ScalarQueryParameter", key,
                       BQ_SCALAR_TYPE_MAP_get(value.ty), value, <<>>))
    ELSE IF value.ty = "float"
    THEN set_float_parameter(key, value)
    ELSE IF value.ty = "list"
    THEN IF Len(value.items) = 0
         THEN Raises("ValueError")
         ELSE set_array_parameter(key, value)
    ELSE IF value.ty = "dict"
    THEN LET rs == [i \in 1..Len(value.items) |->
                        set_parameter(value.keys[i], value.items[i])]
         IN  IF FirstRaised(rs) # "none"
             THEN Raises(FirstRaised(rs))
             ELSE StructQueryParameter(key, value,
                      [i \in 1..Len(rs) |-> rs[i].param])
    ELSE Returns(ParamNone)

(***************************************************************************)
(* BQPipeline.validate_parameter, validate_query_params, set_query_params  *)
(***************************************************************************)
\* set(map(type, xs)) of a list's elements, or of a dict's keys
TypesOf(xs) == {xs[i].ty : i \in 1..Len(xs)}

RECURSIVE validate_parameter(_)
validate_parameter(query_parameter) ==
    IF query_parameter.ty = "list"
    THEN /\ Cardinality(TypesOf(query_parameter.items)) = 1
         /\ TypesOf(query_parameter.items) \subseteq BQ_SCALAR_TYPES
    ELSE IF query_parameter.ty = "dict"
    THEN IF Len(query_parameter.items) = 0
         THEN FALSE
         ELSE /\ Cardinality(TypesOf(query_parameter.keys)) = 1
              /\ TypesOf(query_parameter.keys) \subseteq {"str"}
              /\ \A i \in 1..Len(query_parameter.items) :
                     validate_parameter(query_parameter.items[i])
    ELSE query_parameter.ty \in BQ_SCALAR_TYPES

\* Mutant: the keys of the top-level mapping are not examined.
validate_query_params_nokeys(query_params) ==
    IF query_params.ty \notin {"list", "dict"}
    THEN FALSE
    ELSE \A i \in 1..Len(query_params.items) :
             validate_parameter(query_params.items[i])

validate_query_params(query_params) ==
    IF query_params.ty \notin {"list", "dict"}
    THEN FALSE
    ELSE IF query_params.ty = "list"
    THEN \A i \in 1..Len(query_params.items) :
             validate_parameter(query_params.items[i])
    ELSE /\ Cardinality(TypesOf(query_params.keys)) = 1
         /\ TypesOf(query_params.keys) \subseteq {"str"}
         /\ \A i \in 1..Len(query_params.items) :
                validate_parameter(query_params.items[i])

\* Python truth value: "not value" is falsy(value).
falsy(value) ==
    \/ value.ty = "NoneType"
    \/ value.ty \in {"list", "dict"} /\ Len(value.items) = 0
    \/ value.ty \in {"int", "bool", "float", "Decimal"} /\ ~value.nan /\ value.n = 0

\* What set_query_params gives: params is the list returned, is_none tells
\* that it returned None.
ParamsReturn(is_none, ps) == [raised |-> "none", is_none |-> is_none, params |-> ps]
ParamsRaise(e) == [raised |-> e, is_none |-> FALSE, params |-> <<>>]

\* Mutant: the parameters are typed without being validated.
set_query_params_unvalidated(query_params) ==
    IF falsy(query_params)
    THEN ParamsReturn(TRUE, <<>>)
    ELSE LET rs == [i \in 1..Len(query_params.items) |->
                        set_parameter(IF query_params.ty = "list" THEN KeyNone
                                      ELSE query_params.keys[i],
                                      query_params.items[i])]
         IN  IF FirstRaised(rs) # "none"
             THEN ParamsRaise(FirstRaised(rs))
             ELSE ParamsReturn(FALSE, [i \in 1..Len(rs) |-> rs[i].param])

set_query_params(query_params) ==
    IF falsy(query_params)
    THEN ParamsReturn(TRUE, <<>>)
    ELSE IF ~validate_query_params(query_params)
    THEN ParamsRaise("ValueError")
    ELSE LET rs == [i \in 1..Len(query_params.items) |->
                        set_parameter(IF query_params.ty = "list" THEN KeyNone
                                      ELSE query_params.keys[i],
                                      query_params.items[i])]
         IN  IF FirstRaised(rs) # "none"
             THEN ParamsRaise(FirstRaised(rs))
             ELSE ParamsReturn(FALSE, [i \in 1..Len(rs) |-> rs[i].param])

(***************************************************************************)
(* tableref, to_tableref and the references of the bigquery library        *)
(***************************************************************************)
DatasetReference(project, dataset_id) ==
    [present |-> TRUE, project |-> project, dataset_id |-> dataset_id]
NoDataset == [present |-> FALSE, project |-> None, dataset_id |-> None]

tableref(project, dataset_id, table_id) ==
    [present |-> TRUE, project |-> project, dataset_id |-> dataset_id,
     table_id |-> table_id]
NoTable == [present |-> FALSE, project |-> None, dataset_id |-> None,
            table_id |-> None]

\* Mutant: the dataset and the table taken from the wrong parts.
to_tableref_swapped(tablespec_str) ==
    LET parts == split(tablespec_str, ".")
    IN  IF Len(parts) < 3
        THEN [raised |-> "IndexError", ref |-> NoTable]
        ELSE [raised |-> "none", ref |-> tableref(parts[1], parts[3], parts[2])]

\* parts[0], parts[1], parts[2] of the split: IndexError with fewer than 3.
to_tableref(tablespec_str) ==
    LET parts == split(tablespec_str, ".")
    IN  IF Len(parts) < 3
        THEN [raised |-> "IndexError", ref |-> NoTable]
        ELSE [raised |-> "none", ref |-> tableref(parts[1], parts[2], parts[3])]

(***************************************************************************)
(* BQPipeline.resolve_table_spec                                           *)
(***************************************************************************)
\* Mutant: the project is prepended to every spec of two or more segments.
resolve_table_spec_ge2(dest, dp, dd) ==
    IF dest = None THEN None
    ELSE LET parts == split(dest, ".")
         IN  IF Len(parts) >= 2 /\ dp # None
             THEN dp \o Dot \o dest
             ELSE IF Len(parts) = 1 /\ dp # None /\ dd # None
             THEN dp \o Dot \o dd \o Dot \o dest
             ELSE dest

\* Mutant: the default dataset is left out of a one-segment spec.
resolve_table_spec_nodataset(dest, dp, dd) ==
    IF dest = None THEN None
    ELSE LET parts == split(dest, ".")
         IN  IF Len(parts) = 2 /\ dp # None
             THEN dp \o Dot \o dest
             ELSE IF Len(parts) = 1 /\ dp # None /\ dd # None
             THEN dp \o Dot \o dest
             ELSE dest

\* Mutant: a one-segment spec is completed without testing the default dataset.
resolve_table_spec_nocheck(dest, dp, dd) ==
    IF dest = None THEN None
    ELSE LET parts == split(dest, ".")
         IN  IF Len(parts) = 2 /\ dp # None
             THEN dp \o Dot \o dest
             ELSE IF Len(parts) = 1 /\ dp # None
             THEN dp \o Dot \o dd \o Dot \o dest
             ELSE dest

\* Mutant: a one-segment spec gets the project alone when the default
\* dataset is unset.
resolve_table_spec_project_alone(dest, dp, dd) ==
    IF dest = None THEN None
    ELSE LET parts == split(dest, ".")
         IN  IF Len(parts) = 2 /\ dp # None
             THEN dp \o Dot \o dest
             ELSE IF Len(parts) = 1 /\ dp # None /\ dd # None
             THEN dp \o Dot \o dd \o Dot \o dest
             ELSE IF Len(parts) = 1 /\ dp # None
             THEN dp \o Dot \o dest
             ELSE dest

resolve_table_spec(dest, dp, dd) ==
    IF dest = None THEN None
    ELSE LET parts == split(dest, ".")
         IN  IF Len(parts) = 2 /\ dp # None
             THEN dp \o Dot \o dest
             ELSE IF Len(parts) = 1 /\ dp # None /\ dd # None
             THEN dp \o Dot \o dd \o Dot \o dest
             ELSE dest

(***************************************************************************)
(* BQPipeline.create_job_config                                            *)
(***************************************************************************)
NoCfg == [priority |-> "None", default_dataset |-> NoDataset,
          destination |-> NoTable, create_disposition |-> "None",
          write_disposition |-> "None", has_query_parameters |-> FALSE,
          query_parameters |-> <<>>]

create_disposition(create) ==
    IF create THEN "CREATE_IF_NEEDED" ELSE "CREATE_NEVER"

\* Mutant: append is tested before overwrite.
write_disposition_append_first(overwrite, append) ==
    IF append THEN "WRITE_APPEND"
    ELSE IF overwrite THEN "WRITE_TRUNCATE"
    ELSE "WRITE_EMPTY"

write_disposition(overwrite, append) ==
    IF overwrite THEN "WRITE_TRUNCATE"
    ELSE IF append THEN "WRITE_APPEND"
    ELSE "WRITE_EMPTY"

query_priority(batch) == IF batch THEN "BATCH" ELSE "INTERACTIVE"

\* "if dest and not dest.startswith('gs://')": None and '' are falsy.
dest_is_table(dest) ==
    dest # None /\ Len(dest) > 0 /\ ~startswith(dest, GcsPrefix)

\* Mutant: "or" in place of "and".
job_default_dataset_or(dp, dd) ==
    IF dp # None \/ dd # None THEN DatasetReference(dp, dd) ELSE NoDataset

job_default_dataset(dp, dd) ==
    IF dp # None /\ dd # None THEN DatasetReference(dp, dd) ELSE NoDataset

create_job_config(batch, dest, create, overwrite, append, query_params, dp, dd) ==
    LET dest_tableref ==
            IF dest_is_table(dest)
            THEN to_tableref(resolve_table_spec(dest, dp, dd))
            ELSE [raised |-> "none", ref |-> NoTable]
        params ==
            IF ~falsy(query_params)
            THEN set_query_params(query_params)
            ELSE ParamsReturn(TRUE, <<>>)
    IN  IF dest_tableref.raised # "none"
        THEN [raised |-> dest_tableref.raised, cfg |-> NoCfg]
        ELSE IF params.raised # "none"
        THEN [raised |-> params.raised, cfg |-> NoCfg]
        ELSE [raised |-> "none",
              cfg |-> [priority |-> query_priority(batch),
                       default_dataset |-> job_default_dataset(dp, dd),
                       destination |-> dest_tableref.ref,
                       create_disposition |-> create_disposition(create),
                       write_disposition |-> write_disposition(overwrite, append),
                       has_query_parameters |-> ~falsy(query_params),
                       query_parameters |-> params.params]]

(***************************************************************************)
(* BQPipeline.__init__ and BQPipeline.get_client                           *)
(***************************************************************************)
\* The orchestrator as constructed: default_project and default_dataset are
\* the arguments given (None when omitted), no client yet.
Constructed ==
    /\ default_project \in {None, ProjectP}
    /\ default_dataset \in {None, DatasetD}
    /\ bq = 0
    /\ query_project = None
    /\ clients_created = 0

\* Mutant: the default project is taken from the client even when one was
\* configured.
get_client_overwrites ==
    /\ IF bq = 0
       THEN /\ bq' = clients_created + 1
            /\ clients_created' = clients_created + 1
            /\ query_project' = ClientProject
            /\ default_project' = ClientProject
       ELSE UNCHANGED <<bq, clients_created, query_project, default_project>>
    /\ UNCHANGED default_dataset

\* The state of self after get_client(): the client is created when absent.
get_client ==
    /\ IF bq = 0
       THEN /\ bq' = clients_created + 1
            /\ clients_created' = clients_created + 1
            /\ query_project' = ClientProject
            /\ default_project' = IF default_project = None
                                  THEN ClientProject
                                  ELSE default_project
       ELSE UNCHANGED <<bq, clients_created, query_project, default_project>>
    /\ UNCHANGED default_dataset

(***************************************************************************)
(* BQPipeline.get_query_details                                            *)
(*                                                                         *)
(* query_details is a path (form "str") or a tuple of len elements (path,  *)
(* destination, parameters, ...); dest and query_params are its second and *)
(* third element.                                                          *)
(***************************************************************************)
get_query_details(form, len, dest, query_params, dp, dd) ==
    IF form = "tuple" /\ len > 1
    THEN IF dest = None
         THEN \* None.startswith
              [raised |-> "AttributeError", sql_path |-> "str",
               destination |-> None, query_params |-> PyNone,
               is_gcs_dest |-> FALSE]
         ELSE [raised |-> "none", sql_path |-> "str",
               destination |-> IF startswith(dest, GcsPrefix) THEN dest
                               ELSE resolve_table_spec(dest, dp, dd),
               query_params |-> IF len = 3 THEN query_params ELSE PyNone,
               is_gcs_dest |-> startswith(dest, GcsPrefix)]
    ELSE \* sql_path is query_details itself: a str, or a tuple of one element
         [raised |-> "none", sql_path |-> form, destination |-> None,
          query_params |-> PyNone, is_gcs_dest |-> FALSE]

(***************************************************************************)
(* Jobs, the steps of the environment that can fail, and the events of a   *)
(* call.                                                                   *)
(***************************************************************************)
NoJob == [present |-> FALSE, destination |-> NoTable, done |-> FALSE]

\* The table the service writes a query's result to when the configuration
\* names none.
AnonTable == tableref(ClientProject, <<"_", "a">>, <<"a", "n", "o", "n">>)

QueryJob(cfg, done) ==
    [present |-> TRUE,
     destination |-> IF cfg.destination.present THEN cfg.destination
                     ELSE AnonTable,
     done |-> done]

\* The step of a call at which the environment fails (the file system, the
\* template engine, the credentials, the service), or "none".
Faults == {"none", "read_sql", "render", "get_client", "query", "result",
           "get_job", "extract_table", "export_result"}

\* The same for copy_table, delete_table and create_dataset.
CopyFaults == {"none", "get_client", "copy_table", "result", "get_job"}
DeleteFaults == {"none", "get_client", "delete_table"}
DatasetFaults == {"none", "create_dataset"}

\* An event of a call: ev is what happened ("submit", "done", "delete",
\* "create", "log_exception"), what the job or operation concerned, ref the
\* table reference and src, dest the identifiers handed to the client,
\* config the write disposition of a copy, entry the position in the list
\* given to run_queries of the query_details being run (0 outside).
Event(ev, what, ref) ==
    [ev |-> ev, what |-> what, ref |-> ref, src |-> None, dest |-> None,
     config |-> "None", entry |-> 0]

IdEvent(ev, what, src, dest, config) ==
    [ev |-> ev, what |-> what, ref |-> NoTable, src |-> src, dest |-> dest,
     config |-> config, entry |-> 0]

\* What a call gives: the exception raised and the step that raised it, the
\* events so far, whether get_client ran, and the job returned.
Outcome(raised, stage, evs, client, job) ==
    [raised |-> raised, stage |-> stage, events |-> evs, client |-> client,
     job |-> job]

\* exception_logger around func: an exception is logged under func's name
\* and raised again.
exception_logger(name, r) ==
    IF r.raised # "none"
    THEN [r EXCEPT !.events = Append(r.events, Event("log_exception", name, NoTable))]
    ELSE r

(***************************************************************************)
(* BQPipeline.export_csv_to_gcs, export_json_to_gcs, export_avro_to_gcs    *)
(* under gcs_export_job_poller and exception_logger.  The table exported   *)
(* is a TableReference, which resolve_table_spec returns as it is.         *)
(***************************************************************************)
\* func, then job.result() of the job it returns; the wrapper returns None.
gcs_export_job_poller(name, table, fault) ==
    IF fault = "extract_table"
    THEN Outcome("GoogleAPIError", "extract_table", <<>>, TRUE, NoJob)
    ELSE IF fault = "export_result"
    THEN Outcome("GoogleAPIError", "export_result",
                 <<Event("submit", name, table)>>, TRUE, NoJob)
    ELSE Outcome("none", "none",
                 <<Event("submit", name, table), Event("done", name, table)>>,
                 TRUE, NoJob)

export_to_gcs(name, table, fault) ==
    exception_logger(name, gcs_export_job_poller(name, table, fault))

\* The same called by itself with a table spec: the spec is resolved, then
\* get_client() is called.
ExportFaults == {"none", "get_client", "extract_table", "export_result"}

export_table_to_gcs(name, table, gcs_path, fault, has_client, dp, dd) ==
    LET submitted == <<IdEvent("submit", name, resolve_table_spec(table, dp, dd),
                               gcs_path, "None")>>
    IN  exception_logger(name,
            IF ~has_client /\ fault = "get_client"
            THEN Outcome("DefaultCredentialsError", "get_client", <<>>, FALSE, NoJob)
            ELSE IF fault = "extract_table"
            THEN Outcome("GoogleAPIError", "extract_table", <<>>, TRUE, NoJob)
            ELSE IF fault = "export_result"
            THEN Outcome("GoogleAPIError", "export_result", submitted, TRUE, NoJob)
            ELSE Outcome("none", "none",
                         Append(submitted,
                                IdEvent("done", name,
                                        resolve_table_spec(table, dp, dd),
                                        gcs_path, "None")),
                         TRUE, NoJob))

(***************************************************************************)
(* BQPipeline.run_query                                                    *)
(***************************************************************************)
\* Mutant: any format that is not JSON or AVRO is exported as CSV.
run_query_export_default_csv(a, job, fault, evs) ==
    LET name == CASE a.gcs_export_format = "JSON" -> "export_json_to_gcs"
                  [] a.gcs_export_format = "AVRO" -> "export_avro_to_gcs"
                  [] OTHER -> "export_csv_to_gcs"
        x == export_to_gcs(name, job.destination, fault)
    IN  Outcome(x.raised, x.stage, evs \o x.events, TRUE,
                IF x.raised = "none" THEN job ELSE NoJob)

\* The export step: after the query, for an object-storage destination.
run_query_export(a, job, fault, evs) ==
    LET name == CASE a.gcs_export_format = "CSV" -> "export_csv_to_gcs"
                  [] a.gcs_export_format = "JSON" -> "export_json_to_gcs"
                  [] a.gcs_export_format = "AVRO" -> "export_avro_to_gcs"
                  [] OTHER -> "none"
        x == export_to_gcs(name, job.destination, fault)
    IN  IF name = "none"
        THEN Outcome("none", "none", evs, TRUE, job)
        ELSE Outcome(x.raised, x.stage, evs \o x.events, TRUE,
                     IF x.raised = "none" THEN job ELSE NoJob)

\* From client.query on: cfg is the job configuration built.
run_query_submit(a, d, cfg, fault) ==
    LET submitted == <<Event("submit", "query", cfg.destination)>>
        waited == IF a.wait
                  THEN Append(submitted, Event("done", "query", cfg.destination))
                  ELSE submitted
    IN  IF fault = "query"
        THEN Outcome("GoogleAPIError", "query", <<>>, TRUE, NoJob)
        ELSE IF a.wait /\ fault = "result"
        THEN Outcome("GoogleAPIError", "result", submitted, TRUE, NoJob)
        ELSE IF a.wait /\ fault = "get_job"
        THEN Outcome("GoogleAPIError", "get_job", waited, TRUE, NoJob)
        ELSE IF d.is_gcs_dest
        THEN run_query_export(a, QueryJob(cfg, a.wait), fault, waited)
        ELSE Outcome("none", "none", waited, TRUE, QueryJob(cfg, a.wait))

\* The body of run_query on an orchestrator with defaults dp and dd, whose
\* client exists iff has_client.
run_query_body(a, fault, has_client, dp, dd) ==
    LET d == get_query_details(a.form, a.len, a.dest, a.query_params, dp, dd)
        \* self.default_project once get_client() has run
        dp1 == IF ~has_client /\ dp = None THEN ClientProject ELSE dp
        c == create_job_config(a.batch, d.destination, a.create, a.overwrite,
                               a.append, d.query_params, dp1, dd)
    IN  IF d.raised # "none"
        THEN Outcome(d.raised, "get_query_details", <<>>, FALSE, NoJob)
        ELSE IF d.sql_path = "tuple"
        THEN Outcome("TypeError", "read_sql", <<>>, FALSE, NoJob)
        ELSE IF fault = "read_sql"
        THEN Outcome("IOError", "read_sql", <<>>, FALSE, NoJob)
        ELSE IF fault = "render"
        THEN Outcome("TemplateError", "render", <<>>, FALSE, NoJob)
        ELSE IF ~has_client /\ fault = "get_client"
        THEN Outcome("DefaultCredentialsError", "get_client", <<>>, FALSE, NoJob)
        ELSE IF c.raised # "none"
        THEN Outcome(c.raised, "create_job_config", <<>>, TRUE, NoJob)
        ELSE run_query_submit(a, d, c.cfg, fault)

run_query(a, fault, has_client, dp, dd) ==
    exception_logger("run_query", run_query_body(a, fault, has_client, dp, dd))

(***************************************************************************)
(* BQPipeline.run_queries                                                  *)
(*                                                                         *)
(* query_paths is a list of query_details, faults the failure of the       *)
(* environment in each of the calls of run_query; a holds the flags.  The  *)
(* events of the call for the i-th entry are marked with i.                *)
(***************************************************************************)
QueriesOutcome(raised, stage, evs, client, jobs) ==
    [raised |-> raised, stage |-> stage, events |-> evs, client |-> client,
     jobs |-> jobs]

\* The arguments of the run_query call made for one entry of query_paths.
QueryCall(a, path) ==
    [a EXCEPT !.form = path.form, !.len = path.len, !.dest = path.dest,
              !.query_params = path.query_params, !.gcs_export_format = "CSV"]

EntryEvents(evs, i) == [k \in 1..Len(evs) |-> [evs[k] EXCEPT !.entry = i]]

\* Mutant: a query that fails is skipped and the loop goes on.
RECURSIVE run_queries_skipping(_, _, _, _, _, _, _, _, _)
run_queries_skipping(query_paths, faults, a, has_client, dp, dd, i, acc, client) ==
    IF i > Len(query_paths)
    THEN QueriesOutcome("none", "none", acc.events, client, acc.jobs)
    ELSE LET r == run_query(QueryCall(a, query_paths[i]), faults[i],
                            has_client, dp, dd)
         IN  run_queries_skipping(
                 query_paths, faults, a, has_client \/ r.client,
                 IF r.client /\ ~has_client /\ dp = None THEN ClientProject
                 ELSE dp,
                 dd, i + 1,
                 [events |-> acc.events \o EntryEvents(r.events, i),
                  jobs |-> IF r.raised = "none" THEN Append(acc.jobs, r.job)
                           ELSE acc.jobs],
                 client \/ r.client)

\* The loop from entry i on: acc holds the events and the jobs so far,
\* client tells whether get_client has run in this call.
RECURSIVE run_queries_from(_, _, _, _, _, _, _, _, _)
run_queries_from(query_paths, faults, a, has_client, dp, dd, i, acc, client) ==
    IF i > Len(query_paths)
    THEN QueriesOutcome("none", "none", acc.events, client, acc.jobs)
    ELSE LET r == run_query(QueryCall(a, query_paths[i]), faults[i],
                            has_client, dp, dd)
         IN  IF r.raised # "none"
             THEN QueriesOutcome(r.raised, r.stage,
                                 acc.events \o EntryEvents(r.events, i),
                                 client \/ r.client, <<>>)
             ELSE run_queries_from(
                      query_paths, faults, a, has_client \/ r.client,
                      IF r.client /\ ~has_client /\ dp = None THEN ClientProject
                      ELSE dp,
                      dd, i + 1,
                      [events |-> acc.events \o EntryEvents(r.events, i),
                       jobs |-> Append(acc.jobs, r.job)],
                      client \/ r.client)

run_queries(query_paths, faults, a, has_client, dp, dd) ==
    run_queries_from(query_paths, faults, a, has_client, dp, dd, 1,
                     [events |-> <<>>, jobs |-> <<>>], FALSE)

(***************************************************************************)
(* BQPipeline.resolve_dataset_spec, create_dataset, copy_table and         *)
(* delete_table                                                            *)
(***************************************************************************)
resolve_dataset_spec(dataset, dp) ==
    IF dataset = None THEN None
    ELSE IF Len(split(dataset, ".")) = 1 /\ dp # None
    THEN dp \o Dot \o dataset
    ELSE dataset

\* self.bq.create_dataset(...): self.bq is used as it is, None included.
create_dataset(dataset, fault, has_client, dp) ==
    exception_logger("create_dataset",
        IF ~has_client
        THEN Outcome("AttributeError", "create_dataset", <<>>, FALSE, NoJob)
        ELSE IF fault = "create_dataset"
        THEN Outcome("GoogleAPIError", "create_dataset", <<>>, FALSE, NoJob)
        ELSE Outcome("none", "none",
                     <<IdEvent("create", "create_dataset", None,
                               resolve_dataset_spec(dataset, dp), "None")>>,
                     FALSE, NoJob))

create_copy_job_config(overwrite) ==
    IF overwrite THEN "WRITE_TRUNCATE" ELSE "WRITE_EMPTY"

\* src and dest are resolved before get_client() is called.
copy_table(src, dest, wait, overwrite, fault, has_client, dp, dd) ==
    LET submitted == <<IdEvent("submit", "copy_table",
                               resolve_table_spec(src, dp, dd),
                               resolve_table_spec(dest, dp, dd),
                               create_copy_job_config(overwrite))>>
        waited == IF wait
                  THEN Append(submitted,
                              IdEvent("done", "copy_table",
                                      resolve_table_spec(src, dp, dd),
                                      resolve_table_spec(dest, dp, dd),
                                      create_copy_job_config(overwrite)))
                  ELSE submitted
        CopyJob == [present |-> TRUE, destination |-> NoTable, done |-> wait]
    IN  exception_logger("copy_table",
            IF ~has_client /\ fault = "get_client"
            THEN Outcome("DefaultCredentialsError", "get_client", <<>>, FALSE, NoJob)
            ELSE IF fault = "copy_table"
            THEN Outcome("GoogleAPIError", "copy_table", <<>>, TRUE, NoJob)
            ELSE IF wait /\ fault = "result"
            THEN Outcome("GoogleAPIError", "result", submitted, TRUE, NoJob)
            ELSE IF wait /\ fault = "get_job"
            THEN Outcome("GoogleAPIError", "get_job", waited, TRUE, NoJob)
            ELSE Outcome("none", "none", waited, TRUE, CopyJob))

\* table is resolved before get_client() is called.
delete_table(table, fault, has_client, dp, dd) ==
    exception_logger("delete_table",
        IF ~has_client /\ fault = "get_client"
        THEN Outcome("DefaultCredentialsError", "get_client", <<>>, FALSE, NoJob)
        ELSE IF fault = "delete_table"
        THEN Outcome("GoogleAPIError", "delete_table", <<>>, TRUE, NoJob)
        ELSE Outcome("none", "none",
                     <<IdEvent("delete", "delete_table", None,
                               resolve_table_spec(table, dp, dd), "None")>>,
                     TRUE, NoJob))

(***************************************************************************)
(* The arguments of a behaviour's calls, and what the last call gave.      *)
(***************************************************************************)
Args(dest, batch, create, overwrite, append, query_params) ==
    [dest |-> dest, batch |-> batch, create |-> create, overwrite |-> overwrite,
     append |-> append, query_params |-> query_params, key |-> KeyNone,
     form |-> "tuple", len |-> 3, wait |-> TRUE, gcs_export_format |-> "CSV",
     query_paths |-> <<>>]

NoRet == [raised |-> "none", stage |-> "none", str |-> None, cfg |-> NoCfg,
          param |-> ParamNone, bool |-> FALSE, is_none |-> TRUE,
          params |-> <<>>, job |-> NoJob, jobs |-> <<>>]

GetClient ==
    /\ get_client
    /\ op' = "get_client"
    /\ ret' = NoRet
    /\ UNCHANGED <<args, events>>

ResolveTableSpec ==
    /\ op' = "resolve_table_spec"
    /\ ret' = [NoRet EXCEPT
                 !.str = resolve_table_spec(args.dest, default_project,
                                            default_dataset)]
    /\ UNCHANGED <<self, args, events>>

CreateJobConfig ==
    \E r \in {create_job_config(args.batch, args.dest, args.create,
                                 args.overwrite, args.append, args.query_params,
                                 default_project, default_dataset)} :
        /\ op' = "create_job_config"
        /\ ret' = [NoRet EXCEPT !.raised = r.raised, !.cfg = r.cfg]
        /\ UNCHANGED <<self, args, events>>

(***************************************************************************)
(* The resolver and the job-configuration builder, on an orchestrator      *)
(* whose client may or may not have been created yet.                      *)
(***************************************************************************)
\* Destinations tried with every combination of the flags.
FlagDests == {None, <<"t">>, join(<<ProjectP, DatasetD, <<"t">>>>, Dot),
              GcsPrefix \o <<"b">>}

\* Every destination with the default flags of create_job_config, and a few
\* destinations with every combination of flags and parameters.
ConfigArgs ==
    {Args(dest, FALSE, TRUE, TRUE, FALSE, PyNone) : dest \in Dests}
    \cup {Args(dest, batch, create, overwrite, append, query_params) :
            dest \in FlagDests, batch \in BOOLEAN, create \in BOOLEAN,
            overwrite \in BOOLEAN, append \in BOOLEAN,
            query_params \in {PyNone, PyList(<<Scalar("int", 1)>>),
                              PyList(<<PyList(<<>>)>>)}}

InitConfig ==
    /\ Constructed
    /\ args \in ConfigArgs
    /\ op = "none"
    /\ ret = NoRet
    /\ events = <<>>

NextConfig == GetClient \/ ResolveTableSpec \/ CreateJobConfig

SpecConfig == InitConfig /\ [][NextConfig]_vars

\* The query parameters given to run_query: absent, empty, valid and
\* invalid ones.
ValidQueryParams ==
    {PyList(<<Scalar("int", 1)>>),
     PyList(<<Scalar("float", 0), PyList(<<Scalar("int", 1), Scalar("int", 0)>>)>>),
     PyDict(<<Key("str", 1), Key("str", 2)>>, <<Scalar("int", 1), Scalar("str", 1)>>),
     PyDict(<<Key("str", 1)>>, <<PyDict(<<Key("str", 1)>>, <<Scalar("int", 1)>>)>>)}

\* Nested empty lists, lists of non-uniform element types, nested empty
\* mappings, mappings with a key that is no string.
InvalidQueryParams ==
    {PyList(<<PyList(<<>>)>>),
     PyDict(<<Key("str", 1)>>, <<PyList(<<>>)>>),
     PyList(<<Scalar("int", 1), PyList(<<Scalar("int", 1), Scalar("str", 2)>>)>>),
     PyList(<<PyList(<<Scalar("int", 1), Scalar("str", 2)>>)>>),
     PyList(<<PyDict(<<>>, <<>>)>>),
     PyDict(<<Key("str", 1)>>, <<PyDict(<<>>, <<>>)>>),
     PyDict(<<Key("int", 1)>>, <<Scalar("int", 1)>>),
     PyDict(<<Key("str", 1), Key("int", 1)>>, <<Scalar("int", 1), Scalar("int", 1)>>),
     PyDict(<<Key("str", 1)>>, <<PyDict(<<Key("int", 1)>>, <<Scalar("int", 1)>>)>>)}

QueryParams ==
    {PyNone, PyList(<<>>), PyDict(<<>>, <<>>)}
    \cup ValidQueryParams \cup InvalidQueryParams

(***************************************************************************)
(* The orchestrator: its operations, in any order, with the arguments of   *)
(* the behaviour and every outcome of the environment.                     *)
(***************************************************************************)
RunQuery ==
    \E fault \in Faults :
        \E r \in {run_query(args, fault, bq # 0, default_project, default_dataset)} :
            /\ IF r.client THEN get_client ELSE UNCHANGED self
            /\ op' = "run_query"
            /\ ret' = [NoRet EXCEPT !.raised = r.raised, !.stage = r.stage,
                                    !.job = r.job]
            /\ events' = r.events
            /\ UNCHANGED args

\* The table copied from, and the datasets created.
CopySource == <<"s">>
Datasets == {DatasetD, <<"p", ".", "d">>}

CopyTable ==
    \E fault \in CopyFaults :
        \E r \in {copy_table(CopySource, args.dest, args.wait, args.overwrite, fault,
                             bq # 0, default_project, default_dataset)} :
            /\ IF r.client THEN get_client ELSE UNCHANGED self
            /\ op' = "copy_table"
            /\ ret' = [NoRet EXCEPT !.raised = r.raised, !.stage = r.stage,
                                    !.job = r.job]
            /\ events' = r.events
            /\ UNCHANGED args

DeleteTable ==
    \E fault \in DeleteFaults :
        \E r \in {delete_table(args.dest, fault, bq # 0, default_project,
                               default_dataset)} :
            /\ IF r.client THEN get_client ELSE UNCHANGED self
            /\ op' = "delete_table"
            /\ ret' = [NoRet EXCEPT !.raised = r.raised, !.stage = r.stage]
            /\ events' = r.events
            /\ UNCHANGED args

CreateDataset ==
    \E fault \in DatasetFaults, dataset \in Datasets :
        \E r \in {create_dataset(dataset, fault, bq # 0, default_project)} :
            /\ op' = "create_dataset"
            /\ ret' = [NoRet EXCEPT !.raised = r.raised, !.stage = r.stage]
            /\ events' = r.events
            /\ UNCHANGED <<self, args>>

\* The export operations by format.
ExportNames == [CSV |-> "export_csv_to_gcs", JSON |-> "export_json_to_gcs",
                AVRO |-> "export_avro_to_gcs"]

\* The export operation of the behaviour's format, called with the
\* behaviour's table spec.
ExportToGcs ==
    \E fault \in ExportFaults,
       name \in {ExportNames[f] : f \in {args.gcs_export_format} \cap DOMAIN ExportNames} :
        \E r \in {export_table_to_gcs(name, args.dest, GcsPrefix \o <<"b">>, fault,
                                      bq # 0, default_project, default_dataset)} :
            /\ IF r.client THEN get_client ELSE UNCHANGED self
            /\ op' = name
            /\ ret' = [NoRet EXCEPT !.raised = r.raised, !.stage = r.stage]
            /\ events' = r.events
            /\ UNCHANGED args

\* Destinations of the queries run.
RunDests == {None, <<>>, <<"t">>, <<"d", ".", "t">>, <<"p", ".", "d", ".", "t">>,
             NearGcs, GcsPrefix \o <<"b">>}

ExportFormats == {"CSV", "JSON", "AVRO", "PARQUET"}

\* query_details: a path, a tuple of a path, of a path and a destination, of
\* a path, a destination and parameters, and a tuple of four elements.
QueryDetails ==
    {[Args(None, FALSE, TRUE, TRUE, FALSE, PyNone) EXCEPT !.form = "str", !.len = 0],
     [Args(None, FALSE, TRUE, TRUE, FALSE, PyNone) EXCEPT !.len = 1]}
    \cup {[Args(dest, FALSE, TRUE, TRUE, FALSE, PyNone) EXCEPT !.len = 2] :
            dest \in RunDests}
    \cup {Args(dest, FALSE, TRUE, TRUE, FALSE, qp) :
            dest \in RunDests, qp \in QueryParams}
    \cup {[Args(dest, FALSE, TRUE, TRUE, FALSE, PyList(<<Scalar("int", 1)>>))
             EXCEPT !.len = 4] : dest \in {<<"t">>, GcsPrefix \o <<"b">>}}

\* Every query_details awaited and exported as CSV; those with absent or
\* valid parameters also with every wait and export format; some with other
\* flags.
RunArgs ==
    QueryDetails
    \cup {[a EXCEPT !.wait = wait, !.gcs_export_format = fmt] :
            a \in {x \in QueryDetails :
                      x.query_params \in {PyNone, PyList(<<Scalar("int", 1)>>)}},
            wait \in BOOLEAN, fmt \in ExportFormats}
    \cup {[a EXCEPT !.batch = TRUE, !.create = FALSE, !.overwrite = FALSE,
                    !.append = append] :
            a \in {x \in QueryDetails : x.len = 2}, append \in BOOLEAN}

Init ==
    /\ Constructed
    /\ args \in RunArgs
    /\ op = "none"
    /\ ret = NoRet
    /\ events = <<>>

Next ==
    \/ GetClient \/ RunQuery \/ CopyTable \/ DeleteTable \/ CreateDataset
    \/ ExportToGcs

Spec == Init /\ [][Next]_vars

(***************************************************************************)
(* run_queries on lists of up to MaxQueries query_details.                 *)
(***************************************************************************)
MaxQueries == 2

QueryPath(form, len, dest, query_params) ==
    [form |-> form, len |-> len, dest |-> dest, query_params |-> query_params]

\* A bare path, a path with a table, a path with an object-storage
\* destination, and a path with a table and parameters that fail validation.
QueryPaths ==
    {QueryPath("str", 0, None, PyNone),
     QueryPath("tuple", 2, <<"p", ".", "d", ".", "t">>, PyNone),
     QueryPath("tuple", 2, GcsPrefix \o <<"b">>, PyNone),
     QueryPath("tuple", 3, <<"p", ".", "d", ".", "u">>, PyList(<<PyList(<<>>)>>))}

\* The failures of the environment tried in each call of run_query.
QueriesFaults == {"none", "render", "query", "result", "export_result"}

RunQueries ==
    \E faults \in [1..Len(args.query_paths) -> QueriesFaults] :
        \E r \in {run_queries(args.query_paths, faults, args, bq # 0,
                              default_project, default_dataset)} :
            /\ IF r.client THEN get_client ELSE UNCHANGED self
            /\ op' = "run_queries"
            /\ ret' = [NoRet EXCEPT !.raised = r.raised, !.stage = r.stage,
                                    !.jobs = r.jobs]
            /\ events' = r.events
            /\ UNCHANGED args

\* run_queries is called with batch priority by default.
QueriesArgs ==
    {[Args(None, TRUE, TRUE, TRUE, FALSE, PyNone)
        EXCEPT !.query_paths = query_paths, !.wait = wait] :
        query_paths \in SeqsUpTo(QueryPaths, MaxQueries), wait \in BOOLEAN}

InitQueries ==
    /\ Constructed
    /\ args \in QueriesArgs
    /\ op = "none"
    /\ ret = NoRet
    /\ events = <<>>

NextQueries == GetClient \/ RunQueries

SpecQueries == InitQueries /\ [][NextQueries]_vars

(***************************************************************************)
(* The parameter typer and the validation of query parameters, applied to  *)
(* a key and a value.                                                      *)
(***************************************************************************)
SetParameter ==
    \E r \in {set_parameter(args.key, args.query_params)} :
        /\ op' = "set_parameter"
        /\ ret' = [NoRet EXCEPT !.raised = r.raised, !.param = r.param]
        /\ UNCHANGED <<self, args, events>>

ValidateQueryParams ==
    /\ op' = "validate_query_params"
    /\ ret' = [NoRet EXCEPT !.bool = validate_query_params(args.query_params)]
    /\ UNCHANGED <<self, args, events>>

SetQueryParams ==
    \E r \in {set_query_params(args.query_params)} :
        /\ op' = "set_query_params"
        /\ ret' = [NoRet EXCEPT !.raised = r.raised, !.is_none = r.is_none,
                                !.params = r.params]
        /\ UNCHANGED <<self, args, events>>

InitParams ==
    /\ Constructed
    /\ \E key \in ParamKeys, value \in Values :
           args = [Args(None, FALSE, TRUE, TRUE, FALSE, value) EXCEPT !.key = key]
    /\ op = "none"
    /\ ret = NoRet
    /\ events = <<>>

NextParams == SetParameter \/ ValidateQueryParams \/ SetQueryParams

SpecParams == InitParams /\ [][NextParams]_vars

(***************************************************************************)
(* Properties of the resolver and of the job-configuration builder,        *)
(* checked under SpecConfig.                                               *)
(***************************************************************************)
\* The number of dot-separated segments of a string.
Segments(s) == Cardinality({i \in 1..Len(s) : s[i] = "."}) + 1

Resolved == op = "resolve_table_spec" /\ args.dest # None

\* C1: resolve_table_spec returns a spec of exactly 3 dot-separated segments
\* unchanged, whatever the default project and dataset are (set or unset) and
\* whether or not the client has been created.
C1_ThreeSegmentsUnchanged ==
    (Resolved /\ Segments(args.dest) = 3) => ret.str = args.dest

\* A 3-segment spec resolved after the client was created and the default
\* project inferred.
C1_Witness ==
    /\ Resolved /\ Segments(args.dest) = 3
    /\ bq # 0 /\ default_project = ClientProject
    /\ ret.str = args.dest

\* C2: a 2-segment spec s with default project P resolves to P.s; a 1-segment
\* spec s with default project P and default dataset D resolves to P.D.s.
C2_PrependsDefaults ==
    /\ (Resolved /\ Segments(args.dest) = 2 /\ default_project # None)
          => ret.str = default_project \o <<".">> \o args.dest
    /\ (Resolved /\ Segments(args.dest) = 1 /\ default_project # None
          /\ default_dataset # None)
          => ret.str = default_project \o <<".">> \o default_dataset
                          \o <<".">> \o args.dest

\* A 1-segment spec completed with both defaults.
C2_Witness ==
    /\ Resolved /\ args.dest = <<"t">>
    /\ default_project = ProjectP /\ default_dataset = DatasetD
    /\ ret.str = <<"p", ".", "d", ".", "t">>

\* The cases no prepend rule covers.
Uncovered ==
    \/ Segments(args.dest) = 1 /\ (default_project = None \/ default_dataset = None)
    \/ Segments(args.dest) = 2 /\ default_project = None
    \/ Segments(args.dest) > 3

\* C3: in every case not covered by the prepend rules resolve_table_spec
\* returns its input unchanged and raises nothing.
C3_OtherwiseUnchanged ==
    (Resolved /\ Uncovered) => (ret.str = args.dest /\ ret.raised = "none")

\* A 1-segment spec left alone because the default dataset is unset, although
\* the default project is set.
C3_Witness ==
    /\ Resolved /\ Segments(args.dest) = 1
    /\ default_project # None /\ default_dataset = None
    /\ ret.str = args.dest

Configured == op = "create_job_config" /\ ret.raised = "none"

\* dest is unset (None or the empty string) or an object-storage path.
NoTableDest ==
    args.dest = None \/ args.dest = <<>> \/ startswith(args.dest, GcsPrefix)

\* The non-empty segments a table name is drawn from.
TableNames == SegTexts \ {<<>>}

\* The query parameters are absent, empty or valid: they raise nothing.
ParamsAccepted ==
    falsy(args.query_params) \/ validate_query_params(args.query_params)

\* C4: create_job_config builds a config without destination when dest is
\* unset or starts with gs://, and otherwise, resolve_table_spec(dest) having
\* its three segments, a config whose destination is the table reference made
\* of them (of the leading three when there are more); with default project P
\* and default dataset D set, t, D.t and P.D.t all give the destination
\* (P, D, t).
C4_Destination ==
    /\ (op = "create_job_config" /\ ParamsAccepted /\ NoTableDest) =>
          (ret.raised = "none" /\ ~ret.cfg.destination.present)
    /\ (/\ op = "create_job_config" /\ ParamsAccepted /\ ~NoTableDest
        /\ Segments(resolve_table_spec(args.dest, default_project,
                                       default_dataset)) >= 3) =>
          LET parts == split(resolve_table_spec(args.dest, default_project,
                                                default_dataset), ".")
          IN  /\ ret.raised = "none"
              /\ ret.cfg.destination = tableref(parts[1], parts[2], parts[3])
    /\ \A t \in TableNames :
          (/\ op = "create_job_config" /\ ParamsAccepted
           /\ default_project # None /\ default_dataset # None
           /\ args.dest \in {t, default_dataset \o <<".">> \o t,
                             default_project \o <<".">> \o default_dataset
                                 \o <<".">> \o t})
          => /\ ret.raised = "none"
             /\ ret.cfg.destination = tableref(default_project, default_dataset, t)

\* The destination D.t completed to (P, D, t).
C4_Witness ==
    /\ Configured /\ args.dest = <<"d", ".", "t">>
    /\ default_project = ProjectP /\ default_dataset = DatasetD
    /\ ret.cfg.destination = tableref(ProjectP, DatasetD, <<"t">>)

C6_DefaultDataset ==
    Configured =>
        /\ ret.cfg.default_dataset.present
              <=> (default_project # None /\ default_dataset # None)
        /\ ret.cfg.default_dataset.present =>
              /\ ret.cfg.default_dataset.project = default_project
              /\ ret.cfg.default_dataset.dataset_id = default_dataset

\* The default dataset made of the project inferred by the client.
C6_Witness ==
    /\ Configured /\ ret.cfg.default_dataset.present
    /\ ret.cfg.default_dataset.project = ClientProject
    /\ ret.cfg.default_dataset.dataset_id = DatasetD

\* The same call on an orchestrator whose default project is unset: no
\* default dataset although the default dataset is set.
C6_WitnessAbsent ==
    /\ Configured /\ default_project = None /\ default_dataset # None
    /\ ~ret.cfg.default_dataset.present

\* C7: for every non-empty destination that does not start with gs://,
\* create_job_config returns a job configuration and raises nothing.
C7_NeverRaises ==
    (/\ op = "create_job_config"
     /\ args.dest # None /\ args.dest # <<>>
     /\ ~startswith(args.dest, GcsPrefix)
     /\ args.query_params = PyNone)
    => ret.raised = "none"

(***************************************************************************)
(* Properties of the parameter typer, checked under SpecParams.            *)
(***************************************************************************)
\* min <= v <= max, both bounds included; false of NaN, as in Python.
WithinBounds(v) ==
    ~v.nan /\ NUMERIC_BOUNDS_min <= v.n /\ v.n <= NUMERIC_BOUNDS_max

\* v < min or v > max; false of NaN, as in Python.
OutsideBounds(v) ==
    ~v.nan /\ (v.n < NUMERIC_BOUNDS_min \/ v.n > NUMERIC_BOUNDS_max)

TypedFloat == op = "set_parameter" /\ args.query_params.ty = "float"

\* C9: set_parameter types a float v as NUMERIC exactly when min <= v <= max
\* and as FLOAT64 exactly when v < min or v > max, and passes the key and the
\* value through unchanged.
C9_FloatScalar ==
    TypedFloat =>
        /\ ret.raised = "none"
        /\ ret.param.cls = "ScalarQueryParameter"
        /\ ret.param.type_ = "NUMERIC" <=> WithinBounds(args.query_params)
        /\ ret.param.type_ = "FLOAT64" <=> OutsideBounds(args.query_params)
        /\ ret.param.name = args.key
        /\ ret.param.value = args.query_params

\* C9 restricted to the floats that are numbers: it holds of every float but
\* NaN.
C9_FloatScalarNotNaN ==
    (TypedFloat /\ ~args.query_params.nan) => C9_FloatScalar

TypedFloatList ==
    /\ op = "set_parameter"
    /\ args.query_params.ty = "list"
    /\ Len(args.query_params.items) > 0
    /\ \A i \in 1..Len(args.query_params.items) :
           args.query_params.items[i].ty = "float"

\* C10: set_parameter types a non-empty list of floats as an array of NUMERIC
\* iff every element lies within the NUMERIC bounds; if an element at any
\* position is below min or above max the array is typed FLOAT64.
C10_FloatArray ==
    TypedFloatList =>
        /\ ret.raised = "none"
        /\ ret.param.cls = "ArrayQueryParameter"
        /\ ret.param.type_ = "NUMERIC" <=>
              \A i \in 1..Len(args.query_params.items) :
                  WithinBounds(args.query_params.items[i])
        /\ (\E i \in 1..Len(args.query_params.items) :
                OutsideBounds(args.query_params.items[i]))
              => ret.param.type_ = "FLOAT64"

\* C10 restricted to the lists without NaN: it holds of each of them.
C10_FloatArrayNotNaN ==
    (/\ TypedFloatList
     /\ \A i \in 1..Len(args.query_params.items) :
            ~args.query_params.items[i].nan)
    => C10_FloatArray

\* The kind of each supported type but float, as the type table states it.
ScalarKind(ty) ==
    CASE ty = "str" -> "STRING"
      [] ty = "int" -> "INT64"
      [] ty = "bool" -> "BOOL"
      [] ty = "bytes" -> "BYTES"
      [] ty = "datetime" -> "TIMESTAMP"
      [] ty = "date" -> "DATE"

NonFloatScalarTypes == {"str", "int", "bool", "bytes", "datetime", "date"}

TypedList == op = "set_parameter" /\ args.query_params.ty = "list"

C11_WitnessEmpty ==
    /\ TypedList /\ Len(args.query_params.items) = 0
    /\ args.key = Key("str", 0) /\ ret.raised = "ValueError"

TypedScalar ==
    op = "set_parameter" /\ args.query_params.ty \in NonFloatScalarTypes

\* C12: set_parameter maps every scalar that is no float to the kind the
\* table gives for its exact type: a string to STRING, an integer to INT64, a
\* boolean to BOOL and never INT64, a byte sequence to BYTES, a timestamp to
\* TIMESTAMP and never DATE, a date to DATE; the parameter returned carries
\* the given key, null or a name, and the value.
C12_ScalarTable ==
    TypedScalar =>
        /\ ret.raised = "none"
        /\ ret.param.cls = "ScalarQueryParameter"
        /\ ret.param.type_ = ScalarKind(args.query_params.ty)
        /\ args.query_params.ty = "bool" => ret.param.type_ # "INT64"
        /\ args.query_params.ty = "datetime" => ret.param.type_ # "DATE"
        /\ ret.param.name = args.key
        /\ ret.param.value = args.query_params

\* A boolean under a named key.
C12_Witness ==
    /\ TypedScalar /\ args.query_params = Scalar("bool", 1)
    /\ args.key = Key("str", 0)
    /\ ret.param.type_ = "BOOL" /\ ret.param.name = Key("str", 0)

\* The values the typing rules cover (ParameterValue): a supported scalar, a
\* non-empty list of supported scalars of one type, a mapping of such values.
RECURSIVE Typeable(_)
Typeable(v) ==
    IF v.ty = "list"
    THEN /\ Len(v.items) > 0
         /\ \A i \in 1..Len(v.items) :
                v.items[i].ty \in BQ_SCALAR_TYPES /\ v.items[i].ty = v.items[1].ty
    ELSE IF v.ty = "dict"
    THEN \A i \in 1..Len(v.items) : Typeable(v.items[i])
    ELSE v.ty \in BQ_SCALAR_TYPES

\* The class of the parameter a value of type ty is typed as.
ParameterClass(ty) ==
    CASE ty = "dict" -> "StructQueryParameter"
      [] ty = "list" -> "ArrayQueryParameter"
      [] OTHER -> "ScalarQueryParameter"

TypedDict ==
    /\ op = "set_parameter" /\ args.query_params.ty = "dict"
    /\ Typeable(args.query_params)

\* C13: set_parameter on a mapping of values the rules cover returns a struct
\* parameter named by the given key with exactly one sub-parameter per entry,
\* in order, each named by its entry's key and being what the same rules give
\* for the entry's value: a struct for a nested mapping, an array for a
\* nested list.
C13_Struct ==
    TypedDict =>
        /\ ret.raised = "none"
        /\ ret.param.cls = "StructQueryParameter"
        /\ ret.param.name = args.key
        /\ Len(ret.param.sub) = Len(args.query_params.items)
        /\ \A i \in 1..Len(args.query_params.items) :
               /\ ret.param.sub[i].name = args.query_params.keys[i]
               /\ ret.param.sub[i].cls =
                      ParameterClass(args.query_params.items[i].ty)
               /\ ret.param.sub[i].value = args.query_params.items[i]
               /\ ret.param.sub[i] =
                      set_parameter(args.query_params.keys[i],
                                    args.query_params.items[i]).param

\* A mapping of a nested mapping and a nested list under a named key.
C13_Witness ==
    /\ TypedDict /\ args.key = Key("str", 0)
    /\ args.query_params =
          PyDict(<<Key("str", 1), Key("str", 2)>>,
                 <<PyDict(<<Key("str", 1)>>, <<Scalar("int", 1)>>),
                   PyList(<<Scalar("int", 1)>>)>>)
    /\ ret.param.sub[1].cls = "StructQueryParameter"
    /\ ret.param.sub[1].sub[1].type_ = "INT64"
    /\ ret.param.sub[2].cls = "ArrayQueryParameter"

\* A mapping is non-empty and has only string keys.
StringKeyed(v) ==
    /\ Len(v.keys) > 0
    /\ \A i \in 1..Len(v.keys) : v.keys[i].ty = "str"

\* A contained value is valid: a scalar of a supported type, a non-empty list
\* of scalars of one and the same supported type, or a non-empty mapping
\* with only string keys whose values are valid.
RECURSIVE ValidValue(_)
ValidValue(v) ==
    \/ v.ty \in BQ_SCALAR_TYPES
    \/ /\ v.ty = "list"
       /\ Len(v.items) > 0
       /\ \E ty \in BQ_SCALAR_TYPES :
              \A i \in 1..Len(v.items) : v.items[i].ty = ty
    \/ /\ v.ty = "dict"
       /\ StringKeyed(v)
       /\ \A i \in 1..Len(v.items) : ValidValue(v.items[i])

\* The argument is a list or a mapping, a mapping is non-empty with only
\* string keys, and every contained value is valid.
ValidParams(v) ==
    /\ v.ty \in {"list", "dict"}
    /\ v.ty = "dict" => StringKeyed(v)
    /\ \A i \in 1..Len(v.items) : ValidValue(v.items[i])

C14_WitnessRejected ==
    /\ op = "validate_query_params" /\ ~ret.bool
    /\ args.query_params \in
          {PyList(<<PyList(<<Scalar("int", 1), Scalar("str", 2)>>)>>),
           PyDict(<<Key("int", 1)>>, <<Scalar("int", 1)>>)}

\* C15: set_query_params returns no parameter list for an empty input (one
\* that Python takes as false); raises a value error for any other input
\* that fails validation; and for every other input that passes returns,
\* without raising, exactly one typed parameter per entry, none of them
\* null, in the order of the input: a positional entry under the null key, a
\* named entry under its mapping key.
C15_QueryParams ==
    op = "set_query_params" =>
        /\ falsy(args.query_params) => (ret.raised = "none" /\ ret.is_none)
        /\ (~falsy(args.query_params) /\ ~ValidParams(args.query_params))
              => ret.raised = "ValueError"
        /\ (~falsy(args.query_params) /\ ValidParams(args.query_params)) =>
              /\ ret.raised = "none" /\ ~ret.is_none
              /\ Len(ret.params) = Len(args.query_params.items)
              /\ \A i \in 1..Len(args.query_params.items) :
                     /\ ret.params[i].cls # "None"
                     /\ ret.params[i].cls =
                            ParameterClass(args.query_params.items[i].ty)
                     /\ ret.params[i].value = args.query_params.items[i]
                     /\ ret.params[i].name =
                            (IF args.query_params.ty = "list" THEN KeyNone
                             ELSE args.query_params.keys[i])

\* Two named parameters, in the order of the mapping.
C15_Witness ==
    /\ op = "set_query_params" /\ ret.raised = "none" /\ ~ret.is_none
    /\ args.query_params =
          PyDict(<<Key("str", 2), Key("str", 1)>>,
                 <<Scalar("int", 1), PyList(<<Scalar("int", 1)>>)>>)
    /\ ret.params[1].name = Key("str", 2) /\ ret.params[1].type_ = "INT64"
    /\ ret.params[2].name = Key("str", 1)
    /\ ret.params[2].cls = "ArrayQueryParameter"

\* Two positional parameters, and an input that fails validation.
C15_WitnessPositional ==
    /\ op = "set_query_params" /\ ret.raised = "none"
    /\ args.query_params = PyList(<<Scalar("str", 1), Scalar("float", 0)>>)
    /\ ret.params[1].name = KeyNone /\ ret.params[2].type_ = "NUMERIC"

C15_WitnessInvalid ==
    /\ op = "set_query_params" /\ ret.raised = "ValueError"
    /\ args.query_params = PyList(<<PyList(<<>>)>>)

(***************************************************************************)
(* Properties of run_query, checked under Spec.                            *)
(***************************************************************************)
\* run_query was given a tuple (path, destination, parameters) whose
\* parameters fail validation.
InvalidParamsCall ==
    /\ op = "run_query"
    /\ args.form = "tuple" /\ args.len = 3
    /\ args.query_params \in InvalidQueryParams

\* No job, query or export, was submitted in the last call.
NothingSubmitted == \A i \in 1..Len(events) : events[i].ev # "submit"

\* The steps at which only the environment fails: the template file, the
\* template engine, the credentials.
EnvironmentStages == {"read_sql", "render", "get_client"}

\* C8: when run_query is given query parameters that fail validation (with a
\* destination string, the template being readable and a client available),
\* it raises a value error and submits no query job and no export job.
C8_InvalidParamsValueError ==
    (InvalidParamsCall /\ args.dest # None /\ ret.stage \notin EnvironmentStages)
    => (ret.raised = "ValueError" /\ NothingSubmitted)

\* What holds of every call with invalid parameters: it raises, before
\* anything is submitted.
C8_InvalidParamsNothingSubmitted ==
    InvalidParamsCall =>
        /\ ret.raised # "none"
        /\ ~ret.job.present
        /\ NothingSubmitted
        /\ ret.stage \in EnvironmentStages
                         \cup {"get_query_details", "create_job_config"}

\* And the exception is a value error once the destination has been accepted.
C8_ValueErrorOnceDestinationAccepted ==
    (/\ InvalidParamsCall
     /\ ret.stage = "create_job_config"
     /\ ret.raised # "IndexError")
    => ret.raised = "ValueError"

(***************************************************************************)
(* Properties of the orchestrator's state, checked under Spec.             *)
(***************************************************************************)
\* C16: over any sequence of operations the client is created at most once
\* and, once there, is the handle every later get_client returns; the
\* default project is written only in the step that creates the client and
\* only if it was unset; a configured default project and the default
\* dataset never change.
C16_ClientOnce ==
    [][/\ clients_created' <= 1
       /\ bq # 0 => (bq' = bq /\ clients_created' = clients_created)
       /\ default_project' # default_project =>
             (bq = 0 /\ bq' # 0 /\ default_project = None)
       /\ default_project # None => default_project' = default_project
       /\ default_dataset' = default_dataset]_vars

\* get_client called after a query was submitted: the client of that query
\* is still the only one, and the project it inferred the default project.
C16_Witness ==
    /\ op = "get_client"
    /\ \E i \in 1..Len(events) : events[i].ev = "submit"
    /\ bq = 1 /\ clients_created = 1
    /\ default_project = ClientProject /\ default_dataset = DatasetD

(***************************************************************************)
(* Properties of the order of the jobs of run_query, checked under Spec.   *)
(***************************************************************************)
ExportOperations == {"export_csv_to_gcs", "export_json_to_gcs", "export_avro_to_gcs"}

ExportSubmitted(i) ==
    events[i].ev = "submit" /\ events[i].what \in ExportOperations

\* run_query was given a destination that is an object-storage path.
GcsDestination ==
    /\ args.form = "tuple" /\ args.len > 1
    /\ args.dest # None /\ startswith(args.dest, GcsPrefix)

\* Every export submitted in the last call was submitted after the query job
\* was done.
ExportAfterQueryDone ==
    \A j \in 1..Len(events) :
        ExportSubmitted(j) =>
            \E i \in 1..(j - 1) :
                events[i].ev = "done" /\ events[i].what = "query"

\* Every export submitted in the last call was done when the call returned.
ExportDoneAtReturn ==
    \A j \in 1..Len(events) :
        ExportSubmitted(j) =>
            \E k \in (j + 1)..Len(events) :
                events[k].ev = "done" /\ events[k].what = events[j].what

\* C17: in run_query with a gs:// destination, for every value of wait, the
\* export job is submitted only after the query job has reached a terminal
\* state, and run_query returns only after the export job has completed;
\* with any other destination no export job is submitted.
C17_ExportAfterQuery ==
    op = "run_query" =>
        /\ ExportAfterQueryDone
        /\ ret.raised = "none" => ExportDoneAtReturn
        /\ ~GcsDestination => \A j \in 1..Len(events) : ~ExportSubmitted(j)

\* What holds of the code: the order of C17 when wait is true, and its other
\* two parts for every value of wait.
C17_ExportAfterQueryWhenWaiting ==
    op = "run_query" =>
        /\ args.wait => ExportAfterQueryDone
        /\ ret.raised = "none" => ExportDoneAtReturn
        /\ ~GcsDestination => \A j \in 1..Len(events) : ~ExportSubmitted(j)

\* An export submitted by a call that did not wait for its query.
C17_ExportWithoutWaiting ==
    /\ op = "run_query" /\ ~args.wait /\ ret.raised = "none"
    /\ \E j \in 1..Len(events) : ExportSubmitted(j)
    /\ ~ret.job.done

(***************************************************************************)
(* Properties of run_queries, checked under SpecQueries.                   *)
(***************************************************************************)
QuerySubmitted(j) == events[j].ev = "submit" /\ events[j].what = "query"

\* The positions of the events at which the query of entry e was submitted.
QuerySubmissions(e) == {j \in 1..Len(events) : QuerySubmitted(j) /\ events[j].entry = e}

\* The destination table the configuration of entry e's query names.
ConfiguredDestination(path) ==
    IF path.len > 1 /\ ~startswith(path.dest, GcsPrefix)
    THEN tableref(split(path.dest, ".")[1], split(path.dest, ".")[2],
                  split(path.dest, ".")[3])
    ELSE NoTable

\* Every job submitted for an entry before e was done before position j.
EarlierEntriesDone(e, j) ==
    \A i \in 1..Len(events) :
        (events[i].ev = "submit" /\ events[i].entry < e) =>
            \E k \in (i + 1)..(j - 1) :
                /\ events[k].ev = "done"
                /\ events[k].what = events[i].what
                /\ events[k].entry = events[i].entry

\* The entry whose run_query raised: the one of the last event, the logging
\* of the exception.
FailedEntry == events[Len(events)].entry

\* C18: run_queries submits the queries in list order, one run_query per
\* entry; with wait true the query of entry i+1 is submitted only after the
\* query of entry i, and its export if any, has completed; if run_query
\* fails for entry i the error reaches the caller and no query is submitted
\* for any later entry; on success the list returned has one job per entry,
\* in the order of the entries.
C18_RunQueriesInOrder ==
    op = "run_queries" =>
        /\ \A i, j \in 1..Len(events) :
               i < j => events[i].entry <= events[j].entry
        /\ \A e \in 1..Len(args.query_paths) :
               /\ Cardinality(QuerySubmissions(e)) <= 1
               /\ \A j \in QuerySubmissions(e) :
                      /\ events[j].ref = ConfiguredDestination(args.query_paths[e])
                      /\ args.wait => EarlierEntriesDone(e, j)
        /\ ret.raised # "none" =>
               /\ Len(events) > 0
               /\ events[Len(events)].ev = "log_exception"
               /\ FailedEntry \in 1..Len(args.query_paths)
               /\ \A e \in 1..(FailedEntry - 1) : QuerySubmissions(e) # {}
               /\ \A e \in (FailedEntry + 1)..Len(args.query_paths) :
                      QuerySubmissions(e) = {}
               /\ ret.jobs = <<>>
        /\ ret.raised = "none" =>
               /\ Len(ret.jobs) = Len(args.query_paths)
               /\ \A e \in 1..Len(args.query_paths) :
                      /\ Cardinality(QuerySubmissions(e)) = 1
                      /\ ret.jobs[e].present
                      /\ ret.jobs[e] =
                             QueryJob([destination |->
                                          ConfiguredDestination(args.query_paths[e])],
                                      args.wait)

\* Two queries run to the end, the first with an export, the second into a
\* table.
C18_Witness ==
    /\ op = "run_queries" /\ ret.raised = "none" /\ args.wait
    /\ Len(args.query_paths) = 2 /\ Len(ret.jobs) = 2
    /\ startswith(args.query_paths[1].dest, GcsPrefix)
    /\ ret.jobs[2].destination = tableref(<<"p">>, <<"d">>, <<"t">>)
    /\ \E j \in 1..Len(events) : ExportSubmitted(j) /\ events[j].entry = 1

\* The second query fails after the first was run: nothing is returned.
C18_WitnessFailure ==
    /\ op = "run_queries" /\ ret.raised = "ValueError"
    /\ Len(args.query_paths) = 2
    /\ QuerySubmissions(1) # {} /\ QuerySubmissions(2) = {}
    /\ FailedEntry = 2

(***************************************************************************)
(* Properties of the logging of exceptions in run_query, checked under     *)
(* Spec.                                                                   *)
(***************************************************************************)
\* The positions of the events that log an exception.
Logged == {i \in 1..Len(events) : events[i].ev = "log_exception"}

\* The operation in which the exception of the last call originated: the
\* export for a failure of the extract job, run_query for any other.
OriginatingOperation ==
    IF ret.stage \in {"extract_table", "export_result"}
    THEN CASE args.gcs_export_format = "CSV" -> "export_csv_to_gcs"
           [] args.gcs_export_format = "JSON" -> "export_json_to_gcs"
           [] args.gcs_export_format = "AVRO" -> "export_avro_to_gcs"
    ELSE "run_query"

\* No job is submitted a second time.
NeverRetried ==
    \A i, j \in 1..Len(events) :
        (/\ i < j /\ events[i].ev = "submit" /\ events[j].ev = "submit")
            => events[i].what # events[j].what

\* C19: every exception raised while run_query executes, in the template
\* read, the render, the job-config build, the submission, the wait or the
\* export it triggers, is logged exactly once, under the name of the
\* operation in which it originated, and is then raised to the caller;
\* nothing is retried and no exception is swallowed.
C19_LoggedExactlyOnce ==
    op = "run_query" =>
        /\ ret.raised # "none" =>
               /\ Cardinality(Logged) = 1
               /\ \A i \in Logged : events[i].what = OriginatingOperation
        /\ ret.raised = "none" => Logged = {}
        /\ NeverRetried

\* What holds of the code: an exception is logged once under run_query, as
\* the last event of the call, and an exception of the export is logged
\* before that a first time, under the name of the export.
C19_LoggedByEveryDecorator ==
    op = "run_query" =>
        /\ ret.raised # "none" =>
               /\ Len(events) \in Logged
               /\ events[Len(events)].what = "run_query"
               /\ Cardinality({i \in Logged : events[i].what = "run_query"}) = 1
               /\ Cardinality(Logged) =
                      (IF OriginatingOperation = "run_query" THEN 1 ELSE 2)
               /\ \A i \in Logged :
                      events[i].what \in {"run_query", OriginatingOperation}
        /\ ret.raised = "none" => Logged = {}
        /\ NeverRetried

\* A failure of the extract job, logged twice.
C19_ExportLoggedTwice ==
    /\ op = "run_query" /\ ret.stage = "extract_table"
    /\ Cardinality(Logged) = 2

(***************************************************************************)
(* Properties of run_query without a destination, checked under Spec.      *)
(***************************************************************************)
\* query_details is a bare path, a tuple of the path alone, or a tuple whose
\* destination is None.
BarePath == args.form = "str"
OneTuple == args.form = "tuple" /\ args.len = 1
NoneDestination == args.form = "tuple" /\ args.len > 1 /\ args.dest = None

\* The exceptions raised by the code itself rather than by the file system,
\* the template engine, the credentials or the service.
LocalErrors == {"AttributeError", "TypeError", "IndexError", "ValueError"}

\* The last call submitted its query without a destination table, triggered
\* no export and raised no local error.
RunWithoutDestination ==
    /\ ret.raised \notin LocalErrors
    /\ \A j \in 1..Len(events) :
           /\ ~ExportSubmitted(j)
           /\ QuerySubmitted(j) => ~events[j].ref.present
    /\ ret.raised = "none" =>
           /\ ret.job.present
           /\ \E j \in 1..Len(events) : QuerySubmitted(j)

\* C20: run_query given a query spec whose destination is absent, the tuple
\* (path, None, params) of the command line included, submits the query
\* with no destination table, triggers no export and raises no local error;
\* the same holds of a bare path and of a tuple of one element.
C20_DestinationOptional ==
    (/\ op = "run_query"
     /\ BarePath \/ OneTuple \/ NoneDestination
     /\ ParamsAccepted)
    => RunWithoutDestination

\* What holds of the code: the bare path.
C20_BarePathOnly ==
    (op = "run_query" /\ BarePath) => RunWithoutDestination

\* The tuple of the command line without --gcs_destination and without
\* --query_params.
C20_CommandLineFails ==
    /\ op = "run_query" /\ NoneDestination /\ args.len = 3
    /\ args.query_params = PyNone
    /\ ret.raised = "AttributeError" /\ ret.stage = "get_query_details"

(***************************************************************************)
(* Properties of set_parameter on values it does not support, checked      *)
(* under SpecParams.                                                       *)
(***************************************************************************)
\* A supported scalar, a non-empty list of supported scalars, or a mapping.
SupportedValue(v) ==
    \/ v.ty \in BQ_SCALAR_TYPES
    \/ /\ v.ty = "list" /\ Len(v.items) > 0
       /\ \A i \in 1..Len(v.items) : v.items[i].ty \in BQ_SCALAR_TYPES
    \/ v.ty = "dict"

\* C21: set_parameter raises a value error for every value that is not a
\* supported scalar, a non-empty list of supported scalars or a mapping, a
\* null value or a value of an unsupported type for example, and so never
\* returns a null parameter.
C21_InvalidValueRaises ==
    op = "set_parameter" =>
        /\ ~SupportedValue(args.query_params) => ret.raised = "ValueError"
        /\ ret.raised = "none" => ret.param.cls # "None"

\* What holds of the code: the empty list raises a value error, and a
\* supported scalar or a list of supported scalars of one type is never
\* typed as a null parameter.
C21_EmptyListOnly ==
    op = "set_parameter" =>
        /\ args.query_params = PyList(<<>>) => ret.raised = "ValueError"
        /\ (/\ args.query_params.ty # "dict"
            /\ Typeable(args.query_params)) =>
              (ret.raised = "none" /\ ret.param.cls # "None")

\* The null value typed as no parameter at all.
C21_NullReturned ==
    /\ op = "set_parameter" /\ args.query_params = PyNone
    /\ ret.raised = "none" /\ ret.param = ParamNone

(***************************************************************************)
(* Properties of the identifiers copy_table and delete_table hand to the   *)
(* client, checked under Spec.                                             *)
(***************************************************************************)
\* The identifiers handed to the client by the call that produced evs: the
\* source and destination of the copy submitted, the table deleted.
SubmittedIds(evs) ==
    {<<evs[i].src, evs[i].dest>> :
        i \in {j \in 1..Len(evs) :
                  /\ evs[j].ev \in {"submit", "delete"}
                  /\ evs[j].what \in {"copy_table", "delete_table"}}}

\* The same operation called twice in a row, both calls reaching the client.
CalledTwice(name) ==
    /\ op = name /\ op' = name
    /\ SubmittedIds(events) # {} /\ SubmittedIds(events') # {}

\* C22: the table identifiers copy_table and delete_table hand to the client
\* for a given spec do not depend on history: the identifier submitted by
\* the first operation on a fresh orchestrator is the one any later call
\* submits for the same spec, also when the default project is inferred
\* from the client.
C22_IdsIndependentOfHistory ==
    [][\A name \in {"copy_table", "delete_table"} :
          CalledTwice(name) => SubmittedIds(events') = SubmittedIds(events)]_vars

\* What holds of the code: the identifiers do not depend on history when the
\* orchestrator was constructed with a default project.
C22_IdsStableWhenConfigured ==
    [][\A name \in {"copy_table", "delete_table"} :
          (CalledTwice(name) /\ default_project = ProjectP)
          => SubmittedIds(events') = SubmittedIds(events)]_vars

\* delete_table('d.t') as the first operation of an orchestrator without
\* default project: the client is handed 'd.t', not 'q.d.t'.
C22_FreshIdUnresolved ==
    /\ op = "delete_table" /\ args.dest = <<"d", ".", "t">>
    /\ default_project = ClientProject
    /\ SubmittedIds(events) = {<<None, <<"d", ".", "t">>>>}

(***************************************************************************)
(* Properties of the use of the client handle, checked under Spec.         *)
(***************************************************************************)
\* The operations that delegate to the warehouse.
DelegatingOperations ==
    {"run_query", "copy_table", "delete_table", "create_dataset"}
    \cup ExportOperations

\* The steps of a call that come before the client is used: reading the
\* query details and the template, rendering it, creating the client.
StagesBeforeClient == {"get_query_details", "read_sql", "render", "get_client"}

\* C23: no operation uses the client handle while it is absent: run_query,
\* copy_table, delete_table, create_dataset and the three exports can each
\* be the first operation on a fresh orchestrator and then create the
\* client themselves before they delegate.
C23_ClientCreatedBeforeUse ==
    (op \in DelegatingOperations /\ ret.stage \notin StagesBeforeClient) =>
        /\ bq # 0
        /\ ret.raised # "AttributeError"

\* What holds of the code: the same of every operation but create_dataset.
C23_AllButCreateDataset ==
    (/\ op \in DelegatingOperations \ {"create_dataset"}
     /\ ret.stage \notin StagesBeforeClient) =>
        /\ bq # 0
        /\ ret.raised # "AttributeError"

\* create_dataset as the first operation: the absent handle is used.
C23_CreateDatasetFirst ==
    /\ op = "create_dataset" /\ bq = 0
    /\ ret.raised = "AttributeError"
    /\ Len(events) = 1 /\ events[1].ev = "log_exception"

\* An export as the first operation creates the client.
C23_ExportFirst ==
    /\ op \in ExportOperations /\ ret.raised = "none" /\ bq = 1
    /\ default_project = ClientProject

(***************************************************************************)
(* Properties of the export format of run_query, checked under Spec.       *)
(***************************************************************************)
\* The positions of the events at which an export was submitted.
ExportSubmissions == {j \in 1..Len(events) : ExportSubmitted(j)}

\* The export operation matching a format.
MatchingExport(format) ==
    CASE format = "CSV" -> "export_csv_to_gcs"
      [] format = "JSON" -> "export_json_to_gcs"
      [] format = "AVRO" -> "export_avro_to_gcs"

\* C24: run_query with a gs:// destination submits exactly one export job,
\* of the matching format, when gcs_export_format is exactly CSV, JSON or
\* AVRO (CSV being the default); for every other format it submits no export
\* job, raises no error of its own and returns the query job.
C24_ExportFormat ==
    (op = "run_query" /\ GcsDestination /\ ParamsAccepted) =>
        IF args.gcs_export_format \in {"CSV", "JSON", "AVRO"}
        THEN /\ Cardinality(ExportSubmissions) <= 1
             /\ \A j \in ExportSubmissions :
                    /\ events[j].what = MatchingExport(args.gcs_export_format)
                    /\ ret.raised = "none" => events[j].ref = ret.job.destination
             /\ ret.raised = "none" => Cardinality(ExportSubmissions) = 1
        ELSE /\ ExportSubmissions = {}
             /\ ret.raised \notin LocalErrors
             /\ ret.stage \notin {"extract_table", "export_result"}
             /\ ret.raised = "none" =>
                    /\ ret.job.present
                    /\ \E j \in 1..Len(events) : QuerySubmitted(j)

\* An AVRO export submitted, and a query with another format returned
\* without export.
C24_Witness ==
    /\ op = "run_query" /\ GcsDestination /\ ret.raised = "none"
    /\ args.gcs_export_format = "AVRO"
    /\ \E j \in ExportSubmissions : events[j].what = "export_avro_to_gcs"

C24_WitnessOtherFormat ==
    /\ op = "run_query" /\ GcsDestination /\ ret.raised = "none"
    /\ args.gcs_export_format = "PARQUET"
    /\ ExportSubmissions = {} /\ ret.job.present

(***************************************************************************)
(* Idempotence of the resolver, checked under SpecConfig.                  *)
(***************************************************************************)
\* C25: resolve_table_spec is idempotent: for every spec string and every
\* setting of the default project and the default dataset, resolving the
\* spec it returned gives that spec again.
C25_Idempotent ==
    Resolved =>
        resolve_table_spec(ret.str, default_project, default_dataset) = ret.str

\* A two-segment spec that was completed with the project inferred by the
\* client: the result has three segments and is left alone.
C25_Witness ==
    /\ Resolved /\ args.dest = <<"d", ".", "t">>
    /\ default_project = ClientProject
    /\ ret.str = <<"q", ".", "d", ".", "t">>
    /\ resolve_table_spec(ret.str, default_project, default_dataset) = ret.str

====
